---- MODULE Spec2Model ----
(***************************************************************************)
(* A model of the chat application's access-controlled messaging core:     *)
(* the row policies of the migrations, the web hooks useChats and          *)
(* useMessages, the mobile ChatScreen, and the two message codecs.         *)
(*                                                                         *)
(* Strings are sequences of UTF-16 code units.  Row ids are naturals: the  *)
(* store hands out fresh uuids, the model fresh numbers.  The id 0 stands  *)
(* for a null reference.                                                   *)
(***************************************************************************)
EXTENDS Integers, Sequences, FiniteSets, TLC

VARIABLES
    profiles,           \* table profiles: user id -> [role, is_active]
    chats,              \* table chats: chat id -> row
    chat_participants,  \* table chat_participants: set of rows
    messages,           \* table messages: message id -> row
    clock,              \* the store's now(); also the source of fresh message ids
    commitLog,          \* the ids of the message rows inserted, in commit order
    open,               \* per user: the mounted chat component and its props
    uiMessages,         \* per user: the messages state of the mounted component
    inflight,           \* per user: responses of fetchMessages not yet received
    events,             \* per user: INSERT notifications not yet handled
    call,               \* per user: the asynchronous call in progress, or Idle
    ret,                \* what the last completed call returned, and to whom
    codec,              \* one use of a codec: its inputs and what it returned
    announcements,      \* table announcements: announcement id -> row
    presence,           \* the typing channels: the <<chat id, user id>> tracked
    typing,             \* per user: the typing state of the mounted component
    messageInput,       \* per user: the draft in the input of the ChatWindow
    replyTo             \* per user: the reply target selected in the ChatWindow, 0 for none

storeVars == <<profiles, chats, chat_participants, messages, clock, commitLog>>

hookVars == <<open, uiMessages, inflight, events>>

vars == <<storeVars, hookVars, call, ret>>

auxVars == <<announcements, presence, typing, messageInput, replyTo>>

allvars == <<vars, codec, auxVars>>

(***************************************************************************)
(* Bounds of the model.                                                    *)
(***************************************************************************)
MaxChats == 1          \* chats created besides the seeded announcement chat
MaxParticipants == 3   \* longest participantIds argument
MaxMessages == 1       \* message inserts begun per behaviour of AccessSpec
SyncMaxMessages == 2   \* message inserts begun per behaviour of SyncSpec
MaxOverPage == 1       \* stored messages beyond the larger page limit in PageSpec
MaxAdminOps == 3       \* writes to profiles per behaviour of AdminSpec
MaxPanels == 2         \* admin panels mounted at a time
MaxDraftLen == 1       \* characters of a draft in the input of ChatWindow
MaxAnnouncements == 2  \* announcements stored at a time
MaxRoleChanges == 1    \* role changes per behaviour of AnnouncementsSpec
MaxInflight == 1       \* responses of fetchMessages one client awaits at a time
MaxClients == 1        \* chat components mounted at a time, all users together
MaxBodyLen == 2        \* longest message body given to a codec
MaxKeyLen == 2         \* longest key given to a codec

\* A NULL text column.
NULL == << -9 >>

Users == {1, 2, 3, 4}

\* The seeded accounts: one super_admin, one admin, two ordinary users.
SeedRole(u) == CASE u = 1 -> "super_admin" [] u = 2 -> "admin" [] OTHER -> "user"

\* '00000000-0000-0000-0000-000000000002', the seeded School Announcements chat
AnnouncementChatId == 0

\* A chat id no row has: what a caller passes for a chat that does not exist.
AbsentChatId == MaxChats + 8

Idle == [fn |-> "idle"]

Closed == [screen |-> "none", chatId |-> 0, encryptionKey |-> NULL, subscribed |-> FALSE]

CodecIdle == [step |-> "unused"]

\* No announcement is stored, nobody is typing and every input is empty.
AuxIdle ==
    /\ announcements = << >>
    /\ presence = {}
    /\ typing = [u \in Users |-> {}]
    /\ messageInput = [u \in Users |-> << >>]
    /\ replyTo = [u \in Users |-> 0]

(***************************************************************************)
(* Sequence helpers.                                                       *)
(***************************************************************************)
\* The sequences over S of length lo to hi
SeqsUpTo(S, lo, hi) == UNION {[1..k -> S] : k \in lo..hi}

Range(s) == {s[i] : i \in DOMAIN s}

NoDuplicates(s) == \A i, j \in DOMAIN s : i # j => s[i] # s[j]

\* Non-decreasing sequences over S of length 0..n: the argument lists tried.
SortedSeqs(S, n) ==
    UNION {{s \in [1..k -> S] : \A i \in 1..(k - 1) : s[i] <= s[i + 1]} : k \in 0..n}

Take(s, n) == IF Len(s) <= n THEN s ELSE SubSeq(s, 1, n)

Reverse(s) == [i \in 1..Len(s) |-> s[Len(s) + 1 - i]]

RECURSIVE SortByCreatedAt(_)
\* the rows of a set in ascending created_at; rows of equal created_at by id
SortByCreatedAt(rows) ==
    IF rows = {} THEN << >>
    ELSE LET first == CHOOSE r \in rows : \A x \in rows :
                          \/ r.created_at < x.created_at
                          \/ (r.created_at = x.created_at /\ r.id <= x.id)
         IN  <<first>> \o SortByCreatedAt(rows \ {first})

\* String.prototype.trim
WhiteSpace == {9, 10, 11, 12, 13, 32, 160}

RECURSIVE TrimStart(_)
TrimStart(s) == IF Len(s) > 0 /\ s[1] \in WhiteSpace THEN TrimStart(Tail(s)) ELSE s

trim(s) == Reverse(TrimStart(Reverse(TrimStart(s))))

(***************************************************************************)
(* The message codecs.  A string is a sequence of UTF-16 code units.       *)
(***************************************************************************)
RECURSIVE BitXor(_, _)
\* JavaScript's a ^ b on non-negative code units
BitXor(a, b) ==
    IF a = 0 THEN b
    ELSE IF b = 0 THEN a
    ELSE (((a % 2) + (b % 2)) % 2) + (2 * BitXor(a \div 2, (b \div 2)))

\* The base64 alphabet: A-Z a-z 0-9 + /
B64Char(i) ==
    IF i < 26 THEN 65 + i
    ELSE IF i < 52 THEN 97 + (i - 26)
    ELSE IF i < 62 THEN 48 + (i - 52)
    ELSE IF i = 62 THEN 43 ELSE 47

IsB64Char(ch) ==
    \/ ch \in 65..90
    \/ ch \in 97..122
    \/ ch \in 48..57
    \/ ch \in {43, 47}

B64Index(ch) ==
    IF ch \in 65..90 THEN ch - 65
    ELSE IF ch \in 97..122 THEN ch - 97 + 26
    ELSE IF ch \in 48..57 THEN ch - 48 + 52
    ELSE IF ch = 43 THEN 62 ELSE 63

RECURSIVE B64Encode(_)
\* the output of btoa for a string of code units <= 255
B64Encode(s) ==
    IF Len(s) = 0 THEN << >>
    ELSE IF Len(s) = 1 THEN
        <<B64Char(s[1] \div 4), B64Char((s[1] % 4) * 16), 61, 61>>
    ELSE IF Len(s) = 2 THEN
        <<B64Char(s[1] \div 4), B64Char(((s[1] % 4) * 16) + (s[2] \div 16)),
          B64Char((s[2] % 16) * 4), 61>>
    ELSE
        <<B64Char(s[1] \div 4), B64Char(((s[1] % 4) * 16) + (s[2] \div 16)),
          B64Char(((s[2] % 16) * 4) + (s[3] \div 64)), B64Char(s[3] % 64)>>
        \o B64Encode(SubSeq(s, 4, Len(s)))

\* btoa(s): throws InvalidCharacterError when a code unit is above 255
btoa(s) ==
    IF \E i \in DOMAIN s : s[i] > 255
    THEN [threw |-> TRUE, value |-> << >>]
    ELSE [threw |-> FALSE, value |-> B64Encode(s)]

RECURSIVE B64Decode(_)
\* decoding of a padding-free run of base64 characters (length % 4 # 1);
\* the bits left over in a last group of two or three characters are dropped
B64Decode(s) ==
    IF Len(s) < 2 THEN << >>
    ELSE LET a == B64Index(s[1])
             b == B64Index(s[2])
         IN  IF Len(s) = 2 THEN <<(a * 4) + (b \div 16)>>
             ELSE LET c == B64Index(s[3])
                  IN  IF Len(s) = 3
                      THEN <<(a * 4) + (b \div 16), ((b % 16) * 16) + (c \div 4)>>
                      ELSE <<(a * 4) + (b \div 16), ((b % 16) * 16) + (c \div 4),
                             ((c % 4) * 64) + B64Index(s[4])>>
                           \o B64Decode(SubSeq(s, 5, Len(s)))

RECURSIVE StripAsciiWhitespace(_)
StripAsciiWhitespace(s) ==
    IF Len(s) = 0 THEN << >>
    ELSE IF s[1] \in {9, 10, 12, 13, 32} THEN StripAsciiWhitespace(Tail(s))
    ELSE <<s[1]>> \o StripAsciiWhitespace(Tail(s))

\* atob(s): the forgiving base64 decode; throws on anything else
atob(s) ==
    LET t == StripAsciiWhitespace(s)
        n == Len(t)
        u == IF n > 0 /\ n % 4 = 0 /\ t[n] = 61
             THEN IF t[n - 1] = 61 THEN SubSeq(t, 1, n - 2) ELSE SubSeq(t, 1, n - 1)
             ELSE t
    IN  IF Len(u) % 4 = 1 \/ \E i \in DOMAIN u : ~IsB64Char(u[i])
        THEN [threw |-> TRUE, value |-> << >>]
        ELSE [threw |-> FALSE, value |-> B64Decode(u)]

\* for (i...) out += String.fromCharCode(text.charCodeAt(i) ^ key.charCodeAt(i % key.length))
XorWithKey(text, key) ==
    [i \in 1..Len(text) |-> BitXor(text[i], key[((i - 1) % Len(key)) + 1])]

\* mobile encryptMessage: XOR, then base64; the plain message when btoa throws
MobileEncryptMessage(message, key) ==
    LET b == btoa(XorWithKey(message, key))
    IN  IF b.threw THEN message ELSE b.value

\* mobile decryptMessage: base64 decode, then XOR; the input when atob throws
MobileDecryptMessage(encryptedMessage, key) ==
    LET a == atob(encryptedMessage)
    IN  IF a.threw THEN encryptedMessage ELSE XorWithKey(a.value, key)

\* CryptoJS.AES.encrypt(message, key).toString(): a sealed envelope of the message
\* under the key.  -1 opens the envelope (the "Salted__" header), -2 separates the
\* key from the message; neither is a code unit, so no text equals an envelope.
AesEncrypt(message, key) == << -1 >> \o key \o << -2 >> \o message

IsAesEnvelope(s) == Len(s) >= 2 /\ s[1] = -1 /\ \E i \in DOMAIN s : s[i] = -2

AesSeparator(s) == CHOOSE i \in DOMAIN s : s[i] = -2 /\ \A j \in 1..(i - 1) : s[j] # -2

\* What CryptoJS.AES.decrypt(...).toString(Utf8) gives when the key is not the sealing
\* key or the input is no intact envelope: the bytes are arbitrary, so the conversion
\* throws "Malformed UTF-8 data", or yields no text, or yields some other text.
AesFailures == {"malformed", "empty", "garbage"}

\* CryptoJS.AES.decrypt(encryptedMessage, key).toString(CryptoJS.enc.Utf8); the
\* empty input holds no block to decrypt and gives the empty text
AesDecryptUtf8(encryptedMessage, key, failure) ==
    IF /\ IsAesEnvelope(encryptedMessage)
       /\ SubSeq(encryptedMessage, 2, AesSeparator(encryptedMessage) - 1) = key
    THEN [threw |-> FALSE,
          value |-> SubSeq(encryptedMessage, AesSeparator(encryptedMessage) + 1,
                           Len(encryptedMessage))]
    ELSE CASE encryptedMessage = << >> -> [threw |-> FALSE, value |-> << >>]
           [] failure = "malformed" -> [threw |-> TRUE, value |-> << >>]
           [] failure = "empty" -> [threw |-> FALSE, value |-> << >>]
           [] OTHER -> [threw |-> FALSE, value |-> << -3 >>]

\* web encryptMessage: CryptoJS never throws on a string, so the catch is dead
WebEncryptMessage(message, key) == AesEncrypt(message, key)

\* web decryptMessage: return decrypted || encryptedMessage, and the catch
WebDecryptMessage(encryptedMessage, key, failure) ==
    LET d == AesDecryptUtf8(encryptedMessage, key, failure)
    IN  IF d.threw THEN encryptedMessage
        ELSE IF d.value # << >> THEN d.value ELSE encryptedMessage

(***************************************************************************)
(* Row policies.                                                           *)
(***************************************************************************)
\* EXISTS (SELECT 1 FROM profiles WHERE id = uid() AND role IN (...))
IsAdminRole(p) == p \in DOMAIN profiles /\ profiles[p].role \in {"super_admin", "admin"}

\* SELECT chat_id FROM chat_participants WHERE user_id = uid()
ParticipantChats(p) == {r.chat_id : r \in {x \in chat_participants : x.user_id = p}}

\* SELECT chat_id FROM chat_participants WHERE user_id = uid() AND is_admin = true
AdminChats(p) ==
    {r.chat_id : r \in {x \in chat_participants : x.user_id = p /\ x.is_admin}}

\* SELECT id FROM chats WHERE type = 'announcement'
AnnouncementChats == {c \in DOMAIN chats : chats[c].type = "announcement"}

\* policy "Users can view chats they participate in"
ChatsSelectPolicy(p, c) == c \in ParticipantChats(p) \/ chats[c].type = "announcement"

\* policy "Users can create chats"
ChatsInsertCheck(p, row) == p = row.created_by

\* A select policy that also lets the admin roles read.
MessagesSelectPolicyWithRoles(p, row) ==
    \/ row.chat_id \in ParticipantChats(p)
    \/ row.chat_id \in AnnouncementChats
    \/ IsAdminRole(p)

\* policy "Users can view messages in their chats"
MessagesSelectPolicy(p, row) ==
    row.chat_id \in ParticipantChats(p) \/ row.chat_id \in AnnouncementChats

\* An insert policy that lets every account write to an announcement chat.
MessagesInsertCheckNoRole(p, row) ==
    /\ p = row.sender_id
    /\ \/ row.chat_id \in ParticipantChats(p)
       \/ row.chat_id \in AnnouncementChats

\* policy "Users can send messages to their chats"
MessagesInsertCheck(p, row) ==
    /\ p = row.sender_id
    /\ \/ row.chat_id \in ParticipantChats(p)
       \/ (row.chat_id \in AnnouncementChats /\ IsAdminRole(p))

\* policy "Users can edit their own messages"
MessagesUpdatePolicy(p, row) == row.sender_id = p

\* policy "Admins can delete any message"
MessagesDeletePolicy(p, row) == row.sender_id = p \/ IsAdminRole(p)

\* policy "Chat admins can manage participants" (FOR ALL: also the check of an
\* INSERT, evaluated against the table as it is before the statement)
ParticipantsManagePolicy(p, row) == row.chat_id \in AdminChats(p) \/ IsAdminRole(p)

(***************************************************************************)
(* Creating a chat: the chat row, then the participant rows.               *)
(***************************************************************************)
\* generateEncryptionKey: a fresh key per chat, here one hex digit.
generateEncryptionKey(c) == <<48 + c>>

NextChatId == Cardinality(DOMAIN chats)

\* supabase.from('chats').insert({...}).select().single(): the row passes the
\* insert policy and is handed back to its creator.
ChatInsert(p, fn, type, participantIds, key) ==
    /\ call[p] = Idle
    /\ LET row == [type |-> type, encryption_key |-> key, created_by |-> p,
                   last_message_at |-> clock]
           id == NextChatId
       IN  /\ ChatsInsertCheck(p, row)
           /\ chats' = [c \in DOMAIN chats \cup {id} |->
                            IF c = id THEN row ELSE chats[c]]
           /\ call' = [call EXCEPT ![p] =
                           [fn |-> fn, chat |-> id, participantIds |-> participantIds]]
    /\ UNCHANGED <<profiles, chat_participants, messages, clock, commitLog, hookVars, ret, codec, auxVars>>

\* useChats.createChat(name, type, participantIds)
createChat(p, type, participantIds) ==
    ChatInsert(p, "createChat", type, participantIds, NULL)

\* NewChatModal.handleCreateChat / NewChatScreen.handleCreateChat
handleCreateChat(p, selectedUsers) ==
    /\ Len(selectedUsers) # 0
    /\ ChatInsert(p, "handleCreateChat",
                  IF Len(selectedUsers) = 1 THEN "private" ELSE "group",
                  selectedUsers, generateEncryptionKey(NextChatId))

\* Participant rows that make every member an admin of the chat.
ParticipantRowsAllAdmin(p, c, participantIds) ==
    [i \in 1..(Len(participantIds) + 1) |->
        [chat_id |-> c, user_id |-> (<<p>> \o participantIds)[i], is_admin |-> TRUE]]

\* [user.id, ...participantIds].map(userId => ({chat_id, user_id, is_admin}))
ParticipantRows(p, c, participantIds) ==
    [i \in 1..(Len(participantIds) + 1) |->
        LET userId == (<<p>> \o participantIds)[i]
        IN  [chat_id |-> c, user_id |-> userId, is_admin |-> (userId = p)]]

\* The multi-row INSERT into chat_participants is one statement: every row passes
\* the policy, the foreign keys and UNIQUE(chat_id, user_id), or none is stored.
ParticipantsInsertOk(p, rows) ==
    /\ NoDuplicates([i \in DOMAIN rows |-> rows[i].user_id])
    /\ \A i \in DOMAIN rows :
        /\ rows[i].chat_id \in DOMAIN chats
        /\ rows[i].user_id \in DOMAIN profiles
        /\ ParticipantsManagePolicy(p, rows[i])
        /\ ~\E x \in chat_participants :
                x.chat_id = rows[i].chat_id /\ x.user_id = rows[i].user_id

\* The second half of createChat / handleCreateChat: the participant insert and
\* the value returned (chat: the chat, or null, here -1, when the insert failed).
\* type and inserted record the type asked for and the id of the chat row the first
\* half stored.
ParticipantsInsert(p) ==
    /\ call[p].fn \in {"createChat", "handleCreateChat"}
    /\ LET c == call[p].chat
           rows == ParticipantRows(p, c, call[p].participantIds)
           ok == ParticipantsInsertOk(p, rows)
       IN  /\ chat_participants' =
                  IF ok THEN chat_participants \cup Range(rows) ELSE chat_participants
           /\ ret' = [user |-> p, fn |-> call[p].fn, type |-> chats[c].type,
                      participantIds |-> call[p].participantIds, inserted |-> c,
                      chat |-> IF ok THEN c ELSE -1]
    /\ call' = [call EXCEPT ![p] = Idle]
    /\ UNCHANGED <<profiles, chats, messages, clock, commitLog, hookVars, codec, auxVars>>

(***************************************************************************)
(* Reading a chat: the chat row and its messages, as the policies let the  *)
(* caller see them.                                                        *)
(***************************************************************************)
\* The chat row a select returns to p: the row, or nothing when no row of that id
\* passes the policy.
SelectChat(p, c) ==
    IF c \in DOMAIN chats /\ ChatsSelectPolicy(p, c) THEN <<chats[c]>> ELSE << >>

\* The same query with no select policy on messages.
QueryMessagesNoPolicy(p, chatId, ascending, limit) ==
    LET rows == {messages[m] : m \in {x \in DOMAIN messages :
                     messages[x].chat_id = chatId}}
        sorted == SortByCreatedAt(rows)
    IN  Take(IF ascending THEN sorted ELSE Reverse(sorted), limit)

\* .from('messages').select().eq('chat_id', chatId).order('created_at', {ascending})
\* .limit(limit), as p
QueryMessages(p, chatId, ascending, limit) ==
    LET rows == {messages[m] : m \in {x \in DOMAIN messages :
                     messages[x].chat_id = chatId /\ MessagesSelectPolicy(p, messages[x])}}
        sorted == SortByCreatedAt(rows)
    IN  Take(IF ascending THEN sorted ELSE Reverse(sorted), limit)

\* useMessages.fetchMessages: .order('created_at', { ascending: true }).limit(100)
WebLimit == 100

\* ChatScreen.fetchMessages: .order('created_at', { ascending: false }).limit(50)
MobileLimit == 50

\* The request of fetchMessages by a component mounted as o: the query runs now, and
\* the response waits in inflight with the chat id and key the callback closed over.
FetchRequest(p, o) ==
    LET web == o.screen = "ChatWindow"
    IN  [screen |-> o.screen, chatId |-> o.chatId, encryptionKey |-> o.encryptionKey,
         data |-> QueryMessages(p, o.chatId, web, IF web THEN WebLimit ELSE MobileLimit)]

\* Mounting ChatWindow (web) or ChatScreen (mobile) on a chat, or switching the
\* mounted ChatWindow to another chat: the effect runs fetchMessages and subscribes.
\* The chat prop is the row the caller can select; without one there is no key.
\* At most `pending` fetches of the component are on their way afterwards.
OpenWithin(p, screen, c, pending) ==
    /\ open[p].screen = "none" \/ (screen = "ChatWindow" /\ open[p].screen = screen
                                     /\ open[p].chatId # c)
    /\ call[p] = Idle
    /\ Cardinality(inflight[p]) < pending
    /\ LET row == SelectChat(p, c)
           mounted == [screen |-> screen, chatId |-> c,
                       encryptionKey |-> IF row = << >> THEN NULL
                                         ELSE row[1].encryption_key,
                       subscribed |-> FALSE]
       IN  /\ open' = [open EXCEPT ![p] = mounted]
           /\ inflight' = [inflight EXCEPT ![p] = @ \cup {FetchRequest(p, mounted)}]
    /\ events' = [events EXCEPT ![p] = 0]
    /\ UNCHANGED <<storeVars, uiMessages, call, ret, codec, auxVars>>

Open(p, screen, c) == OpenWithin(p, screen, c, MaxInflight)

\* The channel of the mounted component joins: INSERT notifications start to arrive.
Subscribed(p) ==
    /\ open[p].screen # "none"
    /\ ~open[p].subscribed
    /\ open' = [open EXCEPT ![p].subscribed = TRUE]
    /\ UNCHANGED <<storeVars, uiMessages, inflight, events, call, ret, codec, auxVars>>

\* Unmounting: the cleanup unsubscribes and the component's state is gone.
Close(p) ==
    /\ open[p].screen # "none"
    /\ call[p] = Idle
    /\ open' = [open EXCEPT ![p] = Closed]
    /\ uiMessages' = [uiMessages EXCEPT ![p] = << >>]
    /\ inflight' = [inflight EXCEPT ![p] = {}]
    /\ events' = [events EXCEPT ![p] = 0]
    /\ UNCHANGED <<storeVars, call, ret, codec, auxVars>>

\* The INSERT callback of the subscription: fetchMessages()
HandleInsertEvent(p) ==
    /\ events[p] > 0
    /\ Cardinality(inflight[p]) < MaxInflight
    /\ events' = [events EXCEPT ![p] = @ - 1]
    /\ inflight' = [inflight EXCEPT ![p] = @ \cup {FetchRequest(p, open[p])}]
    /\ UNCHANGED <<storeVars, open, uiMessages, call, ret, codec, auxVars>>

\* useMessages.fetchMessages, after the await: decrypt and setMessages
WebDecrypted(data, encryptionKey, failure) ==
    [i \in DOMAIN data |->
        IF data[i].encrypted_content # NULL /\ data[i].encrypted_content # << >>
           /\ encryptionKey # NULL
        THEN [data[i] EXCEPT
                 !.content = WebDecryptMessage(data[i].encrypted_content,
                                               encryptionKey, failure)]
        ELSE data[i]]

\* ChatScreen.fetchMessages, after the await: the rows as GiftedChat messages;
\* row is the stored row an entry stands for
GiftedMessages(data, encryptionKey) ==
    [i \in DOMAIN data |->
        [id |-> data[i].id,
         text |-> IF data[i].encrypted_content # NULL
                     /\ data[i].encrypted_content # << >> /\ encryptionKey # NULL
                  THEN MobileDecryptMessage(data[i].encrypted_content, encryptionKey)
                  ELSE data[i].content,
         user |-> data[i].sender_id,
         row |-> data[i].id]]

\* A response of fetchMessages arrives: setMessages(...) on the mounted component,
\* whichever chat it shows by now.
FetchDone(p) ==
    /\ \E r \in inflight[p], failure \in AesFailures :
        /\ inflight' = [inflight EXCEPT ![p] = @ \ {r}]
        /\ uiMessages' = [uiMessages EXCEPT ![p] =
               IF r.screen = "ChatWindow"
               THEN WebDecrypted(r.data, r.encryptionKey, failure)
               ELSE GiftedMessages(r.data, r.encryptionKey)]
    /\ UNCHANGED <<storeVars, open, events, call, ret, codec, auxVars>>

(***************************************************************************)
(* Writing messages.                                                       *)
(***************************************************************************)
\* '[Encrypted Message]', the placeholder stored in content
Placeholder == <<91, 69, 93>>

\* The INSERT into messages begins: the transaction's now() fixes created_at (and the
\* model's fresh id); the row is stored when the transaction commits.
InsertBegin(p, fn, text, messageData) ==
    /\ call[p] = Idle
    /\ call' = [call EXCEPT ![p] =
           [fn |-> fn, text |-> text,
            row |-> [id |-> clock, chat_id |-> messageData.chat_id,
                     sender_id |-> messageData.sender_id,
                     content |-> messageData.content,
                     encrypted_content |-> messageData.encrypted_content,
                     reply_to |-> messageData.reply_to,
                     is_edited |-> FALSE, created_at |-> clock]]]
    /\ clock' = clock + 1
    /\ UNCHANGED <<profiles, chats, chat_participants, messages, commitLog, hookVars,
                   ret, codec, auxVars>>

\* useMessages.sendMessage(content, replyTo) up to the insert
sendMessage(p, content, replyToId) ==
    /\ open[p].screen = "ChatWindow"
    /\ trim(content) # << >>
    /\ LET key == open[p].encryptionKey
       IN  InsertBegin(p, "sendMessage", content,
               [chat_id |-> open[p].chatId, sender_id |-> p, reply_to |-> replyToId,
                content |-> IF key # NULL THEN Placeholder ELSE trim(content),
                encrypted_content |-> IF key # NULL
                                      THEN WebEncryptMessage(trim(content), key)
                                      ELSE NULL])

\* ChatScreen.onSend(newMessages) up to the insert
onSend(p, text) ==
    /\ open[p].screen = "ChatScreen"
    /\ LET key == open[p].encryptionKey
       IN  InsertBegin(p, "onSend", text,
               [chat_id |-> open[p].chatId, sender_id |-> p, reply_to |-> 0,
                content |-> IF key # NULL THEN Placeholder ELSE text,
                encrypted_content |-> IF key # NULL
                                      THEN MobileEncryptMessage(text, key)
                                      ELSE NULL])

\* The policy and the foreign keys of an INSERT into messages
MessagesInsertOk(p, row) ==
    /\ MessagesInsertCheck(p, row)
    /\ row.chat_id \in DOMAIN chats
    /\ row.sender_id \in DOMAIN profiles
    /\ row.reply_to = 0 \/ row.reply_to \in DOMAIN messages

\* The insert commits or is refused.  A stored row fires the trigger
\* update_chat_last_message and an INSERT notification to every subscribed
\* component showing the chat.  sendMessage returns here; onSend goes on.
InsertCommitStore(p) ==
    /\ call[p].fn \in {"sendMessage", "onSend"}
    /\ "row" \in DOMAIN call[p]
    /\ LET row == call[p].row
           ok == MessagesInsertOk(p, row)
       IN  /\ messages' = IF ok
                          THEN [m \in DOMAIN messages \cup {row.id} |->
                                   IF m = row.id THEN row ELSE messages[m]]
                          ELSE messages
           /\ commitLog' = IF ok THEN Append(commitLog, row.id) ELSE commitLog
           /\ chats' = IF ok
                       THEN [chats EXCEPT ![row.chat_id].last_message_at = row.created_at]
                       ELSE chats
           /\ events' = [u \in Users |->
                            IF ok /\ open[u].subscribed /\ open[u].chatId = row.chat_id
                            THEN events[u] + 1 ELSE events[u]]
           /\ IF call[p].fn = "onSend" /\ ok
              THEN /\ call' = [call EXCEPT ![p] = [fn |-> "onSend", text |-> call[p].text, inserted |-> row]]
                   /\ ret' = ret
              ELSE /\ call' = [call EXCEPT ![p] = Idle]
                   /\ ret' = [user |-> p, fn |-> call[p].fn, value |-> ok]
    /\ UNCHANGED <<profiles, chat_participants, clock, open, uiMessages, inflight, codec>>

InsertCommit(p) == InsertCommitStore(p) /\ UNCHANGED auxVars

\* GiftedChat.append(previousMessages, newMessages): the new ones come first
GiftedChatAppend(previousMessages, newMessages) == newMessages \o previousMessages

\* onSend after the insert: setMessages(prev => GiftedChat.append(prev, newMessages)).
\* The new message carries the id GiftedChat gave it, not the id of the stored row.
OnSendAppend(p) ==
    /\ call[p].fn = "onSend"
    /\ "inserted" \in DOMAIN call[p]
    /\ LET row == call[p].inserted
           message == [id |-> 0 - row.id, text |-> call[p].text, user |-> p,
                       row |-> row.id]
       IN  uiMessages' = [uiMessages EXCEPT ![p] = GiftedChatAppend(@, <<message>>)]
    /\ call' = [call EXCEPT ![p] = Idle]
    /\ ret' = [user |-> p, fn |-> "onSend", value |-> TRUE]
    /\ UNCHANGED <<storeVars, open, inflight, events, codec, auxVars>>

\* useMessages.editMessage(messageId, newContent): the update, filtered by id and
\* sender_id and by the update policy.  No error is raised when no row matches.
editMessage(p, messageId, newContent) ==
    /\ open[p].screen = "ChatWindow"
    /\ call[p] = Idle
    /\ LET key == open[p].encryptionKey
           hit == {m \in DOMAIN messages :
                      /\ m = messageId
                      /\ messages[m].sender_id = p
                      /\ MessagesUpdatePolicy(p, messages[m])}
       IN  messages' = [m \in DOMAIN messages |->
               IF m \in hit
               THEN [messages[m] EXCEPT
                        !.content = IF key # NULL THEN Placeholder ELSE trim(newContent),
                        !.is_edited = TRUE,
                        !.encrypted_content =
                            IF key # NULL THEN WebEncryptMessage(trim(newContent), key)
                            ELSE NULL]
               ELSE messages[m]]
    /\ call' = [call EXCEPT ![p] = [fn |-> "editMessage", messageId |-> messageId]]
    /\ UNCHANGED <<profiles, chats, chat_participants, clock, commitLog, hookVars,
                   ret, codec, auxVars>>

\* editMessage after the update: await fetchMessages(); return true
EditRefetch(p) ==
    /\ call[p].fn = "editMessage"
    /\ Cardinality(inflight[p]) < MaxInflight
    /\ inflight' = [inflight EXCEPT ![p] = @ \cup {FetchRequest(p, open[p])}]
    /\ call' = [call EXCEPT ![p] = Idle]
    /\ ret' = [user |-> p, fn |-> "editMessage", messageId |-> call[p].messageId,
               value |-> TRUE]
    /\ UNCHANGED <<storeVars, open, uiMessages, events, codec, auxVars>>

\* useMessages.deleteMessage(messageId): the delete, filtered by id and sender_id and
\* by the delete policy; rows replying to a deleted row get reply_to NULL.  No error
\* is raised when no row matches, and true is returned.  deleted is the row as it
\* was when the call was made, caller the caller's membership and role then.
deleteMessage(p, messageId) ==
    /\ open[p].screen = "ChatWindow"
    /\ call[p] = Idle
    /\ messageId \in DOMAIN messages
    /\ LET hit == {m \in DOMAIN messages :
                      /\ m = messageId
                      /\ messages[m].sender_id = p
                      /\ MessagesDeletePolicy(p, messages[m])}
       IN  messages' = [m \in DOMAIN messages \ hit |->
               IF messages[m].reply_to \in hit
               THEN [messages[m] EXCEPT !.reply_to = 0]
               ELSE messages[m]]
    /\ ret' = [user |-> p, fn |-> "deleteMessage", value |-> TRUE,
                    deleted |-> messages[messageId],
                    caller |-> [admin |-> IsAdminRole(p),
                                member |-> messages[messageId].chat_id
                                               \in ParticipantChats(p)]]
    /\ UNCHANGED <<profiles, chats, chat_participants, clock, commitLog, hookVars,
                   call, codec, auxVars>>

(***************************************************************************)
(* The initial store: the seeded accounts and the announcement chat.       *)
(***************************************************************************)
SeedProfiles == [u \in Users |-> [role |-> SeedRole(u), is_active |-> TRUE]]

SeedChats ==
    [c \in {AnnouncementChatId} |->
        [type |-> "announcement", encryption_key |-> NULL, created_by |-> 1,
         last_message_at |-> 0]]

Init ==
    /\ profiles = SeedProfiles
    /\ chats = SeedChats
    /\ chat_participants = {}
    /\ messages = << >>
    /\ clock = 1
    /\ commitLog = << >>
    /\ open = [u \in Users |-> Closed]
    /\ uiMessages = [u \in Users |-> << >>]
    /\ inflight = [u \in Users |-> {}]
    /\ events = [u \in Users |-> 0]
    /\ call = [u \in Users |-> Idle]
    /\ ret = Idle
    /\ codec = CodecIdle
    /\ AuxIdle

\* What the users type: "a", and a lone space.
SendTexts == {<<97>>, <<32>>}

\* What the users change a message to: "b", and a lone space.
EditTexts == {<<98>>, <<32>>}

Mounted == {u \in Users : open[u].screen # "none"}

(***************************************************************************)
(* Spec: creating chats, by every account, with every participant list.    *)
(***************************************************************************)
Next ==
    \E p \in Users :
        \/ /\ NextChatId <= MaxChats
           /\ \E type \in {"private", "group"},
                 participantIds \in SortedSeqs(Users, MaxParticipants) :
                    createChat(p, type, participantIds)
        \/ /\ NextChatId <= MaxChats
           /\ \E selectedUsers \in SortedSeqs(Users \ {p}, MaxParticipants) :
                /\ NoDuplicates(selectedUsers)
                /\ handleCreateChat(p, selectedUsers)
        \/ ParticipantsInsert(p)

Spec == Init /\ [][Next]_allvars

\* The last call returned was a chat creation.
Created == ret.fn \in {"createChat", "handleCreateChat"}

MembersOf(c) == {x \in chat_participants : x.chat_id = c}

ParticipantsSelectPolicy(p, row) ==
    row.chat_id \in ParticipantChats(p) \/ ParticipantsManagePolicy(p, row)

\* The rows of chat_participants!inner (...) the caller gets embedded in chat c
EmbeddedParticipants(p, c) ==
    {x \in chat_participants : x.chat_id = c /\ ParticipantsSelectPolicy(p, x)}

\* from('chats').select('*, chat_participants!inner (...)')
\*   .or('chat_participants.user_id.eq.<uid>,type.eq.announcement'):
\* a chat the caller may read, joined to its participant rows (an inner join:
\* a chat without any is left out), being an announcement chat or having the
\* caller among them.
ChatListQuery(p) ==
    {c \in DOMAIN chats :
        /\ ChatsSelectPolicy(p, c)
        /\ EmbeddedParticipants(p, c) # {}
        /\ \/ \E x \in EmbeddedParticipants(p, c) : x.user_id = p
           \/ chats[c].type = "announcement"}

\* useChats.fetchChats / ChatListScreen.fetchChats: the chats set into the list;
\* the mobile screen leaves the announcement chats out.
fetchChats(p, screen) ==
    /\ p \in DOMAIN profiles
    /\ ret' = [user |-> p, fn |-> "fetchChats", screen |-> screen,
               chats |-> IF screen = "ChatListScreen"
                         THEN {c \in ChatListQuery(p) : chats[c].type # "announcement"}
                         ELSE ChatListQuery(p)]
    /\ UNCHANGED <<storeVars, hookVars, call, codec, auxVars>>

ListNext ==
    \/ Next
    \/ \E p \in Users, screen \in {"useChats", "ChatListScreen"} : fetchChats(p, screen)

ListSpec == Init /\ [][ListNext]_allvars

\* C17: the chat list of every active account contains the announcement chat,
\* whether or not the account, or anyone, has a participant row in it.
C17_AnnouncementListed ==
    (/\ ret.fn = "fetchChats"
     /\ profiles[ret.user].is_active)
        => AnnouncementChats \subseteq ret.chats

(***************************************************************************)
(* AccessSpec: reading and writing messages through the web hook, in a     *)
(* store that holds, besides the seeded announcement chat, a group chat    *)
(* made by createChat(1, "group", <<3>>) and a private chat made by        *)
(* handleCreateChat(2, <<4>>).                                             *)
(***************************************************************************)
AccessChats ==
    [c \in {0, 1, 2} |->
        CASE c = 0 -> SeedChats[AnnouncementChatId]
          [] c = 1 -> [type |-> "group", encryption_key |-> NULL, created_by |-> 1,
                       last_message_at |-> 1]
          [] OTHER -> [type |-> "private", encryption_key |-> generateEncryptionKey(2),
                       created_by |-> 2, last_message_at |-> 1]]

AccessParticipants ==
    Range(ParticipantRows(1, 1, <<3>>)) \cup Range(ParticipantRows(2, 2, <<4>>))

AccessInit ==
    /\ profiles = SeedProfiles
    /\ chats = AccessChats
    /\ chat_participants = AccessParticipants
    /\ messages = << >>
    /\ clock = 1
    /\ commitLog = << >>
    /\ open = [u \in Users |-> Closed]
    /\ uiMessages = [u \in Users |-> << >>]
    /\ inflight = [u \in Users |-> {}]
    /\ events = [u \in Users |-> 0]
    /\ call = [u \in Users |-> Idle]
    /\ ret = Idle
    /\ codec = CodecIdle
    /\ AuxIdle

AccessNext ==
    \E p \in Users :
        \/ /\ Cardinality(Mounted \cup {p}) <= MaxClients
           /\ \E c \in DOMAIN chats \cup {AbsentChatId} : Open(p, "ChatWindow", c)
        \/ Subscribed(p)
        \/ Close(p)
        \/ HandleInsertEvent(p)
        \/ FetchDone(p)
        \/ /\ clock <= MaxMessages
           /\ \E content \in SendTexts : sendMessage(p, content, 0)
        \/ InsertCommit(p)
        \/ \E m \in DOMAIN messages, newContent \in EditTexts :
                editMessage(p, m, newContent)
        \/ EditRefetch(p)
        \/ \E m \in DOMAIN messages : deleteMessage(p, m)

AccessSpec == AccessInit /\ [][AccessNext]_allvars

IsMember(p, c) == \E x \in chat_participants : x.chat_id = c /\ x.user_id = p

IsBroadcast(c) == c \in DOMAIN chats /\ chats[c].type = "announcement"

StoredIn(c) == {m \in DOMAIN messages : messages[m].chat_id = c}

RowsRead(r) == {r.data[i].id : i \in DOMAIN r.data}

C2_UnauthorizedAsAbsent ==
    \A p \in Users : \A r \in inflight[p] :
        (r.chatId \in DOMAIN chats /\ ~IsMember(p, r.chatId) /\ ~IsBroadcast(r.chatId))
            => /\ r.data = QueryMessages(p, AbsentChatId, TRUE, WebLimit)
               /\ r.encryptionKey = NULL

\* A principal who may not read a chat fetched it while it held a message.
C2_Witness ==
    \E p \in Users : \E r \in inflight[p] :
        /\ r.chatId \in DOMAIN chats
        /\ ~IsMember(p, r.chatId)
        /\ ~IsBroadcast(r.chatId)
        /\ StoredIn(r.chatId) # {}

\* C3: when an admin who is not a member of a group chat calls deleteMessage on
\* another user's message there, the message is removed.
C3_AdminDeletes ==
    (/\ ret.fn = "deleteMessage"
     /\ ret.caller.admin
     /\ ~ret.caller.member
     /\ ret.deleted.sender_id # ret.user
     /\ chats[ret.deleted.chat_id].type = "group")
        => ret.deleted.id \notin DOMAIN messages

\* C12: a send by P commits a message row only if the row's sender is P and P is a
\* member of the chat, or the chat is the announcement chat and P's role is
\* super_admin or admin; in every other case no row is added.
C12_SendPolicy ==
    [][\A p \in Users :
            ("row" \in DOMAIN call[p] /\ "row" \notin DOMAIN call'[p])
                => LET row == call[p].row
                   IN  /\ DOMAIN messages' \ DOMAIN messages \subseteq {row.id}
                       /\ row.id \in DOMAIN messages'
                            <=> /\ row.sender_id = p
                                /\ \/ IsMember(p, row.chat_id)
                                   \/ IsBroadcast(row.chat_id) /\ IsAdminRole(p)]_allvars

\* An admin who is no member of the announcement chat has a message stored there.
C12_Witness ==
    \E m \in DOMAIN messages :
        /\ IsBroadcast(messages[m].chat_id)
        /\ ~IsMember(messages[m].sender_id, messages[m].chat_id)
        /\ IsAdminRole(messages[m].sender_id)

\* C13: an edit of a message by an account that is not its sender is rejected: the
\* caller gets a failure result, not success.
C13_EditByOtherFails ==
    (/\ ret.fn = "editMessage"
     /\ ret.messageId \in DOMAIN messages
     /\ messages[ret.messageId].sender_id # ret.user)
        => ret.value = FALSE

\* Nothing is on its way: no call, no response and no notification is pending.
Quiescent ==
    \A u \in Users : call[u] = Idle /\ inflight[u] = {} /\ events[u] = 0

\* The stored row a displayed entry stands for.
RowOf(e) == IF "row" \in DOMAIN e THEN e.row ELSE e.id

\* A displayed entry shows a stored row as it is stored now.
Reflects(e) ==
    /\ RowOf(e) \in DOMAIN messages
    /\ LET row == messages[RowOf(e)]
       IN  IF "text" \in DOMAIN e
           THEN row.encrypted_content = NULL => e.text = row.content
           ELSE /\ e.is_edited = row.is_edited
                /\ e.encrypted_content = row.encrypted_content
                /\ row.encrypted_content = NULL => e.content = row.content

\* C10: every committed edit and delete reaches the list of every subscriber: once
\* nothing is on its way, each entry a subscribed component shows stands for a
\* stored row and shows it as it is stored.
C10_EditsAndDeletesShown ==
    Quiescent =>
        \A p \in Users : \A i \in DOMAIN uiMessages[p] :
            open[p].subscribed => Reflects(uiMessages[p][i])

\* A string of code units: what a user can type, as opposed to an AES envelope.
IsText(s) == \A i \in DOMAIN s : s[i] >= 0

\* C21: every stored message of a chat that has a key holds the placeholder as its
\* content and a ciphertext, no readable text, as its encrypted_content; every
\* stored message of a chat without a key has encrypted_content NULL.
C21_SealedIffKeyed ==
    \A m \in DOMAIN messages :
        IF chats[messages[m].chat_id].encryption_key # NULL
        THEN /\ messages[m].content = Placeholder
             /\ messages[m].encrypted_content # NULL
             /\ ~IsText(messages[m].encrypted_content)
        ELSE messages[m].encrypted_content = NULL

\* C23: the last_message_at of every chat that holds a message is the created_at
\* of its newest stored message.
C23_LastMessageAt ==
    \A c \in DOMAIN chats :
        LET stored == {m \in DOMAIN messages : messages[m].chat_id = c}
        IN  stored # {}
                => \E m \in stored :
                      /\ chats[c].last_message_at = messages[m].created_at
                      /\ \A n \in stored : messages[n].created_at <= messages[m].created_at

\* The body a stored row carries: the text sealed in its envelope, else its content.
BodyOf(row) ==
    IF row.encrypted_content # NULL /\ IsAesEnvelope(row.encrypted_content)
    THEN SubSeq(row.encrypted_content, AesSeparator(row.encrypted_content) + 1,
                Len(row.encrypted_content))
    ELSE row.content

\* C30: whatever strings sendMessage and editMessage are called with, no stored
\* message has an empty or whitespace-only body, and no stored ciphertext seals the
\* empty string.
C30_NoBlankBody ==
    \A m \in DOMAIN messages : trim(BodyOf(messages[m])) # << >>

(***************************************************************************)
(* SyncSpec: two members of the group chat, each with a chat component     *)
(* mounted on it and subscribed (ChatWindow on the web, ChatScreen on the  *)
(* phone), sending concurrently.                                           *)
(***************************************************************************)
\* The chat both components show: the group chat of the store.
SyncChatId == CHOOSE c \in DOMAIN AccessChats : AccessChats[c].type = "group"

SyncUsers == {1, 3}

SyncInit ==
    /\ profiles = SeedProfiles
    /\ chats = AccessChats
    /\ chat_participants = AccessParticipants
    /\ messages = << >>
    /\ clock = 1
    /\ commitLog = << >>
    /\ \E screens \in [SyncUsers -> {"ChatWindow", "ChatScreen"}] :
        open = [u \in Users |->
                   IF u \in SyncUsers
                   THEN [screen |-> screens[u], chatId |-> SyncChatId,
                         encryptionKey |-> chats[SyncChatId].encryption_key,
                         subscribed |-> TRUE]
                   ELSE Closed]
    /\ uiMessages = [u \in Users |-> << >>]
    /\ inflight = [u \in Users |-> {}]
    /\ events = [u \in Users |-> 0]
    /\ call = [u \in Users |-> Idle]
    /\ ret = Idle
    /\ codec = CodecIdle
    /\ AuxIdle

SyncNext ==
    \E p \in SyncUsers :
        \/ HandleInsertEvent(p)
        \/ FetchDone(p)
        \/ /\ clock <= SyncMaxMessages
           /\ \E content \in SendTexts : sendMessage(p, content, 0)
        \/ /\ clock <= SyncMaxMessages
           /\ \E text \in SendTexts : onSend(p, text)
        \/ InsertCommit(p)
        \/ OnSendAppend(p)

SyncSpec == SyncInit /\ [][SyncNext]_allvars

ShownRows(p) == {RowOf(uiMessages[p][i]) : i \in DOMAIN uiMessages[p]}

\* The place of stored row m in the list of p, counted in reading order: a
\* ChatWindow lists oldest first, a ChatScreen newest first.
PlaceOf(p, m) ==
    LET i == CHOOSE k \in DOMAIN uiMessages[p] : RowOf(uiMessages[p][k]) = m
    IN  IF open[p].screen = "ChatWindow" THEN i ELSE 0 - i

\* C8: no committed message appears more than once in a displayed list.
C8_ShownOnce ==
    \A p \in Users : \A i, j \in DOMAIN uiMessages[p] :
        i # j => RowOf(uiMessages[p][i]) # RowOf(uiMessages[p][j])

\* C9: when message A was committed before message B, every subscriber's list that
\* shows both places A before B.
C9_CommitOrder ==
    \A p \in Users : \A i, j \in DOMAIN commitLog :
        (i < j /\ open[p].subscribed /\ {commitLog[i], commitLog[j]} \subseteq ShownRows(p))
            => PlaceOf(p, commitLog[i]) < PlaceOf(p, commitLog[j])

(***************************************************************************)
(* PageSpec: the group chat holds a number of messages around the page     *)
(* limits, sent in turn by its two members, and the members mount a chat   *)
(* component on it.                                                        *)
(***************************************************************************)
\* The message table after n sends into the group chat, one per clock tick.
SentMessages(n) ==
    [m \in 1..n |->
        [id |-> m, chat_id |-> SyncChatId,
         sender_id |-> IF m % 2 = 1 THEN 1 ELSE 3,
         content |-> <<97>>, encrypted_content |-> NULL, reply_to |-> 0,
         is_edited |-> FALSE, created_at |-> m]]

PageInit ==
    /\ profiles = SeedProfiles
    /\ chat_participants = AccessParticipants
    /\ \E n \in 0..(WebLimit + MaxOverPage) :
        /\ messages = SentMessages(n)
        /\ clock = n + 1
        /\ commitLog = [i \in 1..n |-> i]
        /\ chats = [AccessChats EXCEPT ![SyncChatId].last_message_at =
                        IF n = 0 THEN @ ELSE n]
    /\ open = [u \in Users |-> Closed]
    /\ uiMessages = [u \in Users |-> << >>]
    /\ inflight = [u \in Users |-> {}]
    /\ events = [u \in Users |-> 0]
    /\ call = [u \in Users |-> Idle]
    /\ ret = Idle
    /\ codec = CodecIdle
    /\ AuxIdle

PageNext ==
    \E p \in SyncUsers :
        \/ /\ Cardinality(Mounted \cup {p}) <= MaxClients
           /\ \E screen \in {"ChatWindow", "ChatScreen"} : Open(p, screen, SyncChatId)
        \/ Subscribed(p)
        \/ Close(p)
        \/ FetchDone(p)

PageSpec == PageInit /\ [][PageNext]_allvars

PageLimit(r) == IF r.screen = "ChatWindow" THEN WebLimit ELSE MobileLimit

\* The rows of a response in reading order: a ChatWindow shows its list top down,
\* a ChatScreen shows the first entry at the bottom.
InReadingOrder(r) == IF r.screen = "ChatWindow" THEN r.data ELSE Reverse(r.data)

\* The limit most recently created of the stored rows of chat c.
MostRecent(c, limit) ==
    {m \in StoredIn(c) :
        Cardinality({x \in StoredIn(c) :
                        messages[x].created_at > messages[m].created_at}) < limit}

\* C11: when a chat holds more messages than the page limit, a fetch returns the
\* limit most recently created messages of the chat, in ascending created_at order.
C11_NewestPage ==
    \A p \in Users : \A r \in inflight[p] :
        Cardinality(StoredIn(r.chatId)) > PageLimit(r)
            => /\ RowsRead(r) = MostRecent(r.chatId, PageLimit(r))
               /\ \A i, j \in DOMAIN r.data :
                    i < j => InReadingOrder(r)[i].created_at
                                 <= InReadingOrder(r)[j].created_at

(***************************************************************************)
(* AdminSpec: managing accounts through AdminPanel / AdminScreen.  The     *)
(* panel reads the signed-in account's role from the profile the auth      *)
(* context holds, a copy of the account's row.                             *)
(***************************************************************************)
\* policies "Users can update own profile" and "Admins can manage all profiles"
ProfilesUpdatePolicy(p, id) == p = id \/ IsAdminRole(p)

\* policy "Admins can manage all profiles" (FOR ALL: the only one for DELETE)
ProfilesDeletePolicy(p, id) == IsAdminRole(p)

\* The panel as it mounts: the profile of the auth context and, by fetchUsers,
\* the list of all accounts.
AdminMounted(p) ==
    [screen |-> "AdminPanel", chatId |-> 0, encryptionKey |-> NULL,
     subscribed |-> FALSE, profile |-> profiles[p], users |-> profiles]

OpenAdmin(p) ==
    /\ open[p].screen = "none"
    /\ p \in DOMAIN profiles
    /\ open' = [open EXCEPT ![p] = AdminMounted(p)]
    /\ UNCHANGED <<storeVars, uiMessages, inflight, events, call, ret, codec, auxVars>>

\* The auth context loads the account's row again.
AuthReload(p) ==
    /\ "profile" \in DOMAIN open[p]
    /\ p \in DOMAIN profiles
    /\ open[p].profile # profiles[p]
    /\ open' = [open EXCEPT ![p].profile = profiles[p]]
    /\ UNCHANGED <<storeVars, uiMessages, inflight, events, call, ret, codec, auxVars>>

\* const isSuperAdmin = profile?.role === 'super_admin'
isSuperAdmin(p) == open[p].screen = "AdminPanel" /\ open[p].profile.role = "super_admin"

\* The controls of a listed account: shown to a super admin, disabled (web) or
\* hidden (mobile) on the row of the own account.
ActionsShown(p, userId) ==
    /\ isSuperAdmin(p)
    /\ userId \in DOMAIN open[p].users
    /\ userId # p

\* An UPDATE of profiles by p filtered by id = userId, then fetchUsers().
ProfilesUpdate(p, fn, userId, field, value) ==
    /\ clock <= MaxAdminOps
    /\ clock' = clock + 1
    /\ LET hit == userId \in DOMAIN profiles /\ ProfilesUpdatePolicy(p, userId)
           after == IF hit THEN [profiles EXCEPT ![userId][field] = value]
                    ELSE profiles
       IN  /\ profiles' = after
           /\ open' = [open EXCEPT ![p].users = after]
    /\ ret' = [user |-> p, fn |-> fn, userId |-> userId]
    /\ UNCHANGED <<chats, chat_participants, messages, commitLog, uiMessages,
                   inflight, events, call, codec, auxVars>>

\* AdminPanel.updateUserRole(userId, newRole), from the role select of a row
updateUserRole(p, userId, newRole) ==
    /\ ActionsShown(p, userId)
    /\ open[p].users[userId].role # newRole
    /\ ProfilesUpdate(p, "updateUserRole", userId, "role", newRole)

\* AdminPanel.toggleUserStatus / AdminScreen.toggleUserStatus(userId, currentStatus),
\* from the button of a row
toggleUserStatus(p, userId) ==
    /\ ActionsShown(p, userId)
    /\ ProfilesUpdate(p, "toggleUserStatus", userId, "is_active",
                      ~open[p].users[userId].is_active)

\* AdminPanel.deleteUser(userId, userEmail), confirmed: the DELETE of the profile
\* row, with ON DELETE CASCADE on chat_participants.user_id and ON DELETE SET NULL
\* on chats.created_by, messages.sender_id and announcements.created_by, then
\* fetchUsers().
deleteUser(p, userId) ==
    /\ ActionsShown(p, userId)
    /\ clock <= MaxAdminOps
    /\ clock' = clock + 1
    /\ LET hit == userId \in DOMAIN profiles /\ ProfilesDeletePolicy(p, userId)
           after == [u \in DOMAIN profiles \ {userId} |-> profiles[u]]
       IN  IF hit
           THEN /\ profiles' = after
                /\ chat_participants' = {x \in chat_participants : x.user_id # userId}
                /\ chats' = [c \in DOMAIN chats |->
                                IF chats[c].created_by = userId
                                THEN [chats[c] EXCEPT !.created_by = 0] ELSE chats[c]]
                /\ messages' = [m \in DOMAIN messages |->
                                   IF messages[m].sender_id = userId
                                   THEN [messages[m] EXCEPT !.sender_id = 0]
                                   ELSE messages[m]]
                /\ announcements' = [a \in DOMAIN announcements |->
                                        IF announcements[a].created_by = userId
                                        THEN [announcements[a] EXCEPT !.created_by = 0]
                                        ELSE announcements[a]]
                /\ open' = [open EXCEPT ![p].users = after]
           ELSE /\ UNCHANGED <<profiles, chat_participants, chats, messages, announcements>>
                /\ open' = [open EXCEPT ![p].users = profiles]
    /\ ret' = [user |-> p, fn |-> "deleteUser", userId |-> userId]
    /\ UNCHANGED <<commitLog, uiMessages, inflight, events, call, codec,
                   presence, typing, messageInput,
                   replyTo>>

Roles == {"user", "admin", "super_admin"}

AdminInit == AccessInit

AdminNext ==
    \E p \in Users :
        \/ /\ Cardinality(Mounted \cup {p}) <= MaxPanels
           /\ OpenAdmin(p)
        \/ AuthReload(p)
        \/ Close(p)
        \/ \E userId \in Users, newRole \in Roles : updateUserRole(p, userId, newRole)
        \/ \E userId \in Users : toggleUserStatus(p, userId)
        \/ \E userId \in Users : deleteUser(p, userId)

AdminSpec == AdminInit /\ [][AdminNext]_allvars

\* The role or the active flag of some account changes in this step.
RoleOrFlagChanges ==
    \E u \in DOMAIN profiles \cap DOMAIN profiles' :
        \/ profiles'[u].role # profiles[u].role
        \/ profiles'[u].is_active # profiles[u].is_active

\* The account whose operation this step completes is a super admin as it acts.
ByOwner == ret'.user \in DOMAIN profiles /\ profiles[ret'.user].role = "super_admin"

\* C14: an account's role or active flag changes only by an operation of an account
\* whose role is super_admin at the time of the operation.
C14_OnlyOwnersChangeRoles == [][RoleOrFlagChanges => ByOwner]_allvars

\* C15: an account row is removed only by an operation of an account whose role is
\* super_admin at the time and which is not the account removed.
C15_OnlyOwnersRemoveOthers ==
    [][\A u \in DOMAIN profiles \ DOMAIN profiles' : ByOwner /\ ret'.user # u]_allvars

\* C28: the store that starts with a super admin always has one: no interleaving of
\* role changes and account deletions by the super admins, none of whom can act on
\* the own account, removes the last of them.
C28_SuperAdminRemains ==
    \E u \in DOMAIN profiles : profiles[u].role = "super_admin"

(***************************************************************************)
(* AnnouncementsSpec: the announcements of AnnouncementList (web) and       *)
(* AnnouncementsScreen (mobile), while a super admin changes roles.         *)
(***************************************************************************)
\* policy "Everyone can view announcements"
AnnouncementsSelectPolicy(p) == TRUE

\* A manage policy that admits every account.
AnnouncementsManagePolicyAnyone(p) == p \in DOMAIN profiles

\* policy "Admins can manage announcements" (FOR ALL)
AnnouncementsManagePolicy(p) == IsAdminRole(p)

\* A sort by created_at alone.
AnnouncementsOrderNewestFirst(a, b) == a.created_at >= b.created_at

\* .order('is_pinned', { ascending: false }).order('created_at', { ascending: false }):
\* a may stand before b
AnnouncementsOrder(a, b) ==
    \/ a.is_pinned /\ ~b.is_pinned
    \/ a.is_pinned = b.is_pinned /\ a.created_at >= b.created_at

\* The results the select may give for the stored rows: every row, with its id,
\* in an order the sort keys allow (rows equal in both keys come in any order).
AnnouncementsQuery(p, rows) ==
    LET ids == {a \in DOMAIN rows : AnnouncementsSelectPolicy(p)}
        Row(a) == [id |-> a, title |-> rows[a].title, content |-> rows[a].content,
                   is_pinned |-> rows[a].is_pinned, created_at |-> rows[a].created_at,
                   created_by |-> rows[a].created_by]
    IN  {[i \in 1..Cardinality(ids) |-> Row(f[i])] :
            f \in {g \in [1..Cardinality(ids) -> ids] :
                      /\ \A i, j \in DOMAIN g : i # j => g[i] # g[j]
                      /\ \A i, j \in DOMAIN g :
                            i < j => AnnouncementsOrder(rows[g[i]], rows[g[j]])}}

\* const isAdmin = profile?.role === 'admin' || profile?.role === 'super_admin'
isAdmin(p) ==
    /\ open[p].screen \in {"AnnouncementList", "AnnouncementsScreen"}
    /\ open[p].profile.role \in {"admin", "super_admin"}

\* The component mounts: the profile of the auth context; fetchAnnouncements().
OpenAnnouncements(p, screen) ==
    /\ open[p].screen = "none"
    /\ p \in DOMAIN profiles
    /\ open' = [open EXCEPT ![p] =
                   [screen |-> screen, chatId |-> 0, encryptionKey |-> NULL,
                    subscribed |-> FALSE, profile |-> profiles[p]]]
    /\ \E data \in AnnouncementsQuery(p, announcements) :
          uiMessages' = [uiMessages EXCEPT ![p] = data]
    /\ ret' = [user |-> p, fn |-> "fetchAnnouncements", error |-> FALSE]
    /\ UNCHANGED <<storeVars, inflight, events, call, codec, auxVars>>

\* fetchAnnouncements(), on a change of the table or a refresh
fetchAnnouncements(p) ==
    /\ open[p].screen \in {"AnnouncementList", "AnnouncementsScreen"}
    /\ \E data \in AnnouncementsQuery(p, announcements) :
          uiMessages' = [uiMessages EXCEPT ![p] = data]
    /\ ret' = [user |-> p, fn |-> "fetchAnnouncements", error |-> FALSE]
    /\ UNCHANGED <<storeVars, open, inflight, events, call, codec, auxVars>>

\* A write of p to announcements went through without an error: the table is as
\* in after and fetchAnnouncements() follows.
AnnouncementsWritten(p, fn, after) ==
    /\ announcements' = after
    /\ \E data \in AnnouncementsQuery(p, after) :
          uiMessages' = [uiMessages EXCEPT ![p] = data]
    /\ ret' = [user |-> p, fn |-> fn, error |-> FALSE]

\* The write failed: the error is caught, nothing else happens.
AnnouncementsRefused(p, fn) ==
    /\ ret' = [user |-> p, fn |-> fn, error |-> TRUE]
    /\ UNCHANGED <<announcements, uiMessages>>

NextAnnouncementId ==
    CHOOSE a \in 1..(Cardinality(DOMAIN announcements) + 1) : a \notin DOMAIN announcements

ShownIds(p) == {uiMessages[p][i].id : i \in DOMAIN uiMessages[p]}

\* handleSubmit with the form of a new announcement (editingId is null): an INSERT
handleSubmit(p, formData) ==
    /\ isAdmin(p)
    /\ trim(formData.title) # << >> /\ trim(formData.content) # << >>
    /\ Cardinality(DOMAIN announcements) < MaxAnnouncements
    /\ IF AnnouncementsManagePolicy(p)
       THEN AnnouncementsWritten(p, "handleSubmit",
                [a \in DOMAIN announcements \cup {NextAnnouncementId} |->
                    IF a = NextAnnouncementId
                    THEN [title |-> formData.title, content |-> formData.content,
                          is_pinned |-> formData.is_pinned,
                          created_by |-> IF p \in DOMAIN profiles THEN p ELSE 0,
                          created_at |-> clock]
                    ELSE announcements[a]])
       ELSE AnnouncementsRefused(p, "handleSubmit")
    /\ UNCHANGED <<profiles, chats, chat_participants, messages, clock, commitLog,
                   open, inflight, events, call, codec, presence, typing, messageInput,
                   replyTo>>

\* An UPDATE of announcements filtered by id: rows the policy hides are not
\* matched, which is no error.
AnnouncementsUpdate(p, fn, id, changes) ==
    /\ AnnouncementsWritten(p, fn,
           [a \in DOMAIN announcements |->
               IF a = id /\ AnnouncementsManagePolicy(p)
               THEN [f \in DOMAIN announcements[a] |->
                        IF f \in DOMAIN changes THEN changes[f] ELSE announcements[a][f]]
               ELSE announcements[a]])
    /\ UNCHANGED <<profiles, chats, chat_participants, messages, clock, commitLog,
                   open, inflight, events, call, codec, presence, typing, messageInput,
                   replyTo>>

\* handleEdit(announcement) of a shown announcement, then handleSubmit with
\* editingId set
handleSubmitEdit(p, editingId, formData) ==
    /\ isAdmin(p)
    /\ editingId \in ShownIds(p)
    /\ trim(formData.title) # << >> /\ trim(formData.content) # << >>
    /\ AnnouncementsUpdate(p, "handleSubmit", editingId,
           [title |-> formData.title, content |-> formData.content,
            is_pinned |-> formData.is_pinned])

\* AnnouncementList.togglePin(id, currentPinned) of a shown announcement
togglePin(p, id) ==
    /\ isAdmin(p)
    /\ open[p].screen = "AnnouncementList"
    /\ \E i \in DOMAIN uiMessages[p] :
          /\ uiMessages[p][i].id = id
          /\ AnnouncementsUpdate(p, "togglePin", id,
                 [is_pinned |-> ~uiMessages[p][i].is_pinned])

\* handleDelete(id) of a shown announcement, confirmed
handleDelete(p, id) ==
    /\ isAdmin(p)
    /\ id \in ShownIds(p)
    /\ AnnouncementsWritten(p, "handleDelete",
           [a \in DOMAIN announcements \ (IF AnnouncementsManagePolicy(p) THEN {id} ELSE {})
               |-> announcements[a]])
    /\ UNCHANGED <<profiles, chats, chat_participants, messages, clock, commitLog,
                   open, inflight, events, call, codec, presence, typing, messageInput,
                   replyTo>>

\* What is typed into the form: a title and a content, each 'a' or blank, pinned or not
FormData == [title : SendTexts, content : SendTexts, is_pinned : BOOLEAN]

AnnouncementsInit == AccessInit

\* The accounts at the announcements: the seeded super admin and the seeded admin
AnnouncementsUsers == {u \in Users : SeedRole(u) # "user"}

AnnouncementsNext ==
    \/ \E p \in AnnouncementsUsers :
        \/ /\ Cardinality(Mounted \cup {p}) <= MaxPanels
           /\ \E screen \in {"AnnouncementList", "AnnouncementsScreen"} :
                 OpenAnnouncements(p, screen)
        \/ AuthReload(p)
        \/ Close(p)
        \/ fetchAnnouncements(p)
        \/ \E formData \in FormData : handleSubmit(p, formData)
        \/ \E id \in DOMAIN announcements, formData \in FormData :
              handleSubmitEdit(p, id, formData)
        \/ \E id \in DOMAIN announcements : togglePin(p, id)
        \/ \E id \in DOMAIN announcements : handleDelete(p, id)
    \/ \E p \in {u \in AnnouncementsUsers : SeedRole(u) = "super_admin"} :
        \/ /\ Cardinality(Mounted \cup {p}) <= MaxPanels
           /\ OpenAdmin(p)
        \/ /\ clock <= MaxRoleChanges
           /\ \E userId \in AnnouncementsUsers, newRole \in {"user", "admin"} :
                 updateUserRole(p, userId, newRole)

AnnouncementsSpec == AnnouncementsInit /\ [][AnnouncementsNext]_allvars

AnnouncementsScreens == {"AnnouncementList", "AnnouncementsScreen"}

\* The step gives p a listing: its list changes, or an operation of p that ends
\* with fetchAnnouncements() completes.
Listed(p) ==
    /\ open'[p].screen \in AnnouncementsScreens
    /\ \/ uiMessages'[p] # uiMessages[p]
       \/ /\ ret'.user = p
          /\ ret'.fn \in {"fetchAnnouncements", "handleSubmit", "togglePin", "handleDelete"}
          /\ ~ret'.error
          /\ ret' # ret \/ announcements' # announcements

\* list is every row of rows, once, as stored
ListsAll(list, rows) ==
    /\ Len(list) = Cardinality(DOMAIN rows)
    /\ {list[i].id : i \in DOMAIN list} = DOMAIN rows
    /\ \A i \in DOMAIN list :
          /\ list[i].is_pinned = rows[list[i].id].is_pinned
          /\ list[i].created_at = rows[list[i].id].created_at

\* pinned before unpinned, and newest first among the pinned and among the unpinned
PinnedThenNewest(list) ==
    \A i, j \in DOMAIN list :
        i < j => /\ list[j].is_pinned => list[i].is_pinned
                 /\ list[i].is_pinned = list[j].is_pinned
                        => list[i].created_at >= list[j].created_at

\* C18: every listing of the announcements holds all stored announcements, the
\* pinned ones before the unpinned ones, each group by descending created_at,
\* whatever the order of creation and pinning was.
C18_PinnedFirstNewestFirst ==
    [][\A p \in Users :
          Listed(p) => /\ ListsAll(uiMessages'[p], announcements')
                       /\ PinnedThenNewest(uiMessages'[p])]_allvars

\* A list that is up to date shows a pinned announcement before an unpinned one
\* that was created later.
C18_Witness ==
    \E p \in Users :
        /\ open[p].screen \in AnnouncementsScreens
        /\ ListsAll(uiMessages[p], announcements)
        /\ Len(uiMessages[p]) = 2
        /\ uiMessages[p][1].is_pinned /\ ~uiMessages[p][2].is_pinned
        /\ uiMessages[p][1].created_at < uiMessages[p][2].created_at

\* C19: the stored announcements change only by a write of an account whose role
\* is admin or super_admin as it writes, and a listing by any account holds every
\* stored announcement.
C19_WritesByAdminsReadsByAll ==
    [][/\ announcements' # announcements
            => /\ ret'.user \in DOMAIN profiles
               /\ profiles[ret'.user].role \in {"admin", "super_admin"}
       /\ \A p \in Users :
            Listed(p) => {uiMessages'[p][i].id : i \in DOMAIN uiMessages'[p]}
                            = DOMAIN announcements']_allvars

\* An account that is no admin any more has the announcements listed, and its
\* write was refused.
C19_Witness ==
    /\ ret.fn = "handleSubmit"
    /\ ret.error
    /\ ~IsAdminRole(ret.user)
    /\ uiMessages[ret.user] # << >>
    /\ ListsAll(uiMessages[ret.user], announcements)

(***************************************************************************)
(* TypingSpec: the typing indicators of ChatWindow.  Two members have the   *)
(* group chat open, type into the input, send, leave and come back.        *)
(***************************************************************************)
\* The values of the input: empty, or letters 'a' and spaces.
DraftTexts == SeqsUpTo({97, 32}, 0, MaxDraftLen)

\* useMessages.updateTypingStatus(isTyping): track or untrack on the typing
\* channel of the chat
TypingAfter(p, isTyping) ==
    IF open[p].chatId = 0 THEN presence
    ELSE IF isTyping THEN presence \cup {<<open[p].chatId, p>>}
    ELSE presence \ {<<open[p].chatId, p>>}

\* ChatWindow.handleTyping(value), the onChange of the input
handleTyping(p, value) ==
    /\ open[p].screen = "ChatWindow"
    /\ value # messageInput[p]
    /\ messageInput' = [messageInput EXCEPT ![p] = value]
    /\ presence' = TypingAfter(p, Len(value) > 0)
    /\ UNCHANGED <<vars, codec, announcements, typing, replyTo>>

\* ChatWindow.handleSendMessage up to the insert of sendMessage
handleSendMessage(p) ==
    /\ trim(messageInput[p]) # << >>
    /\ sendMessage(p, messageInput[p], replyTo[p])

\* A handleSendMessage that clears the input and the reply target whatever
\* sendMessage returned.
handleSendMessageReturnAlwaysClears(p) ==
    /\ call[p].fn = "sendMessage"
    /\ InsertCommitStore(p)
    /\ messageInput' = [messageInput EXCEPT ![p] = << >>]
    /\ replyTo' = [replyTo EXCEPT ![p] = 0]
    /\ presence' = TypingAfter(p, FALSE)
    /\ UNCHANGED <<announcements, typing>>

\* sendMessage returns to handleSendMessage: on success the input and the reply
\* target are cleared and updateTypingStatus(false) is called.
handleSendMessageReturn(p) ==
    /\ call[p].fn = "sendMessage"
    /\ InsertCommitStore(p)
    /\ LET success == MessagesInsertOk(p, call[p].row)
       IN  /\ messageInput' = IF success THEN [messageInput EXCEPT ![p] = << >>]
                              ELSE messageInput
           /\ replyTo' = IF success THEN [replyTo EXCEPT ![p] = 0] ELSE replyTo
           /\ presence' = IF success THEN TypingAfter(p, FALSE) ELSE presence
    /\ UNCHANGED <<announcements, typing>>

\* The 'sync' event of the typing channel: the keys of the presence state, the
\* own one left out.
PresenceState(c) == {u \in Users : <<c, u>> \in presence}

PresenceSync(q) ==
    /\ open[q].screen = "ChatWindow"
    /\ open[q].subscribed
    /\ typing[q] # PresenceState(open[q].chatId) \ {q}
    /\ typing' = [typing EXCEPT ![q] = PresenceState(open[q].chatId) \ {q}]
    /\ UNCHANGED <<vars, codec, announcements, presence, messageInput, replyTo>>

\* ChatWindow unmounts, or its connection is lost: the channels are left, the
\* presence entry of the client goes with its channel, the component's state is gone.
Leave(p) ==
    /\ open[p].screen = "ChatWindow"
    /\ call[p] = Idle
    /\ open' = [open EXCEPT ![p] = Closed]
    /\ uiMessages' = [uiMessages EXCEPT ![p] = << >>]
    /\ inflight' = [inflight EXCEPT ![p] = {}]
    /\ events' = [events EXCEPT ![p] = 0]
    /\ presence' = presence \ {<<open[p].chatId, p>>}
    /\ typing' = [typing EXCEPT ![p] = {}]
    /\ messageInput' = [messageInput EXCEPT ![p] = << >>]
    /\ replyTo' = [replyTo EXCEPT ![p] = 0]
    /\ UNCHANGED <<storeVars, call, ret, codec, announcements>>

TypingInit ==
    /\ AccessInit
    /\ AuxIdle

TypingNext ==
    \E p \in SyncUsers :
        \/ Open(p, "ChatWindow", SyncChatId)
        \/ Subscribed(p)
        \/ Leave(p)
        \/ HandleInsertEvent(p)
        \/ FetchDone(p)
        \/ \E value \in DraftTexts : handleTyping(p, value)
        \/ /\ clock <= MaxMessages
           /\ handleSendMessage(p)
        \/ handleSendMessageReturn(p)
        \/ PresenceSync(p)

\* Every started fetch and insert returns, every presence change is delivered.
TypingSpec ==
    /\ TypingInit
    /\ [][TypingNext]_allvars
    /\ \A p \in SyncUsers : /\ WF_allvars(PresenceSync(p))
                            /\ WF_allvars(handleSendMessageReturn(p))
                            /\ WF_allvars(FetchDone(p))
                            /\ WF_allvars(HandleInsertEvent(p))

\* C16: once P no longer renews its typing entry (its input stays as it is, be it
\* a draft left idle, or the client gone), the entry eventually disappears from
\* the typing state of the conversation and stays away.
C16_TypingExpires ==
    \A p \in SyncUsers : \A v \in DraftTexts :
        <>[](messageInput[p] = v) => <>[](<<SyncChatId, p>> \notin presence)

(***************************************************************************)
(* ReplySpec: one ChatWindow at a time, opened on any chat and switched     *)
(* between chats, with its input, its reply target and its sends.          *)
(***************************************************************************)
\* ChatWindow.handleReply(messageId), from the bubble of a shown message
handleReply(p, messageId) ==
    /\ open[p].screen = "ChatWindow"
    /\ \E i \in DOMAIN uiMessages[p] : uiMessages[p][i].id = messageId
    /\ replyTo[p] # messageId
    /\ replyTo' = [replyTo EXCEPT ![p] = messageId]
    /\ UNCHANGED <<vars, codec, announcements, presence, typing, messageInput>>

ReplyNext ==
    \E p \in SyncUsers :
        \/ /\ Cardinality(Mounted \cup {p}) <= MaxClients
           /\ \E c \in DOMAIN chats : Open(p, "ChatWindow", c)
        \/ Subscribed(p)
        \/ Leave(p)
        \/ HandleInsertEvent(p)
        \/ FetchDone(p)
        \/ \E value \in DraftTexts : handleTyping(p, value)
        \/ \E m \in DOMAIN messages : handleReply(p, m)
        \/ /\ clock <= SyncMaxMessages
           /\ handleSendMessage(p)
        \/ handleSendMessageReturn(p)

ReplySpec == AccessInit /\ [][ReplyNext]_allvars

\* C22: the reply_to of every stored message is a message of the same chat.
C22_ReplyInSameChat ==
    \A m \in DOMAIN messages :
        messages[m].reply_to # 0
            => /\ messages[m].reply_to \in DOMAIN messages
               /\ messages[messages[m].reply_to].chat_id = messages[m].chat_id

\* The step in which the sendMessage of p returns.
SendReturns(p) == "row" \in DOMAIN call[p] /\ call[p].fn = "sendMessage" /\ call'[p] = Idle

\* C26: a send stores at most one row, the one of its single insert.  When the
\* insert is refused no row is stored, the caller gets false, and the input and
\* the reply target stay as they are; when it is accepted the caller gets true and
\* both are cleared.
C26_FailedSendKeepsDraft ==
    [][\A p \in Users :
          SendReturns(p)
              => /\ DOMAIN messages' \ DOMAIN messages \subseteq {call[p].row.id}
                 /\ IF MessagesInsertOk(p, call[p].row)
                    THEN /\ call[p].row.id \in DOMAIN messages'
                         /\ ret' = [user |-> p, fn |-> "sendMessage", value |-> TRUE]
                         /\ messageInput'[p] = << >> /\ replyTo'[p] = 0
                    ELSE /\ messages' = messages
                         /\ ret' = [user |-> p, fn |-> "sendMessage", value |-> FALSE]
                         /\ messageInput'[p] = messageInput[p]
                         /\ replyTo'[p] = replyTo[p]]_allvars

\* A send with a draft and a reply target was refused, and both are still there.
C26_Witness ==
    /\ ret.fn = "sendMessage"
    /\ ~ret.value
    /\ messageInput[ret.user] # << >>
    /\ replyTo[ret.user] # 0

\* The ids of the rows a fetch by the component of p would return now.
Fetchable(p) ==
    LET data == QueryMessages(p, open[p].chatId, TRUE, WebLimit)
    IN  {data[i].id : i \in DOMAIN data}

\* C27: when the writes have stopped and every fetch has come back, the list of
\* each subscribed component holds exactly the stored messages of its chat, up to
\* the page limit: no late response has replaced a later one, and no message
\* committed between the first fetch and the channel joining is missing.
C27_ListsConverge ==
    Quiescent =>
        \A p \in Users :
            (open[p].screen = "ChatWindow" /\ open[p].subscribed)
                => ShownRows(p) = Fetchable(p)

(***************************************************************************)
(* SwitchSpec: one ChatWindow that is switched from chat to chat while the *)
(* fetch of the chat it showed before is still on its way.  The store is   *)
(* the seeded one of AccessSpec; the members send, nobody edits or deletes.*)
(***************************************************************************)
SwitchNext ==
    \E p \in Users :
        \/ /\ Cardinality(Mounted \cup {p}) <= MaxClients
           /\ \E c \in DOMAIN chats : OpenWithin(p, "ChatWindow", c, MaxInflight + 1)
        \/ Subscribed(p)
        \/ Close(p)
        \/ HandleInsertEvent(p)
        \/ FetchDone(p)
        \/ /\ clock <= MaxMessages
           /\ \E content \in SendTexts : sendMessage(p, content, 0)
        \/ InsertCommit(p)

SwitchSpec == AccessInit /\ [][SwitchNext]_allvars

\* The responses that a step hands to the component of p, which stays mounted.
Applied(p) ==
    IF open'[p].screen = "none" THEN {} ELSE inflight[p] \ inflight'[p]

\* C24: once the component has turned away from a chat, no result about that chat
\* is written into its list: every response a mounted component applies was asked
\* for the chat the component shows when the response arrives.
C24_NoResultAfterRevoke ==
    [][\A p \in Users : \A r \in Applied(p) : r.chatId = open[p].chatId]_allvars

(***************************************************************************)
(* CrossSpec: the two members of the keyed chat, on either client surface. *)
(* The web hook seals with AES, the mobile screen with XOR and base64, and *)
(* each fetch opens the whole batch with the surface's own decryptMessage. *)
(***************************************************************************)
CrossUsers ==
    {u \in Users : \E r \in AccessParticipants :
        r.user_id = u /\ AccessChats[r.chat_id].encryption_key # NULL}

CrossNext ==
    \E p \in CrossUsers :
        \/ \E screen \in {"ChatWindow", "ChatScreen"}, c \in DOMAIN chats :
              /\ chats[c].encryption_key # NULL
              /\ Open(p, screen, c)
        \/ Subscribed(p)
        \/ HandleInsertEvent(p)
        \/ FetchDone(p)
        \/ /\ clock <= SyncMaxMessages
           /\ \E content \in SendTexts : sendMessage(p, content, 0)
        \/ /\ clock <= SyncMaxMessages
           /\ \E text \in SendTexts : onSend(p, text)
        \/ InsertCommit(p)
        \/ OnSendAppend(p)

CrossSpec == AccessInit /\ [][CrossNext]_allvars

\* CryptoJS.AES.decrypt gives the body back: an envelope sealed under this key.
Opens(encryptedMessage, key) ==
    /\ IsAesEnvelope(encryptedMessage)
    /\ SubSeq(encryptedMessage, 2, AesSeparator(encryptedMessage) - 1) = key

\* C25: in a fetched batch every message that decrypts is listed with its body, and
\* a message whose decryption fails is listed with an error marker of its own, not
\* with its ciphertext and not with the placeholder.
C25_FailedDecryptMarked ==
    \A p \in Users : \A i \in DOMAIN uiMessages[p] :
        LET e == uiMessages[p][i]
            key == open[p].encryptionKey
        IN  (open[p].screen = "ChatWindow" /\ key # NULL /\ e.encrypted_content # NULL)
                => IF Opens(e.encrypted_content, key)
                   THEN e.content = SubSeq(e.encrypted_content,
                                           AesSeparator(e.encrypted_content) + 1,
                                           Len(e.encrypted_content))
                   ELSE /\ "error" \in DOMAIN e
                        /\ e.content \notin {e.encrypted_content, Placeholder}

(***************************************************************************)
(* The codecs on their own: seal a body under a key, then open the result  *)
(* with the same key, with another key, or after tampering.                *)
(***************************************************************************)

\* 'a', e-acute (above 127), the euro sign (above 255)
CodecBodies == SeqsUpTo({97, 233, 8364}, 0, MaxBodyLen)

\* keys are hex strings: '1' and 'f'
CodecKeys == SeqsUpTo({49, 102}, 1, MaxKeyLen)

encryptMessage(impl, message, key) ==
    IF impl = "web" THEN WebEncryptMessage(message, key)
    ELSE MobileEncryptMessage(message, key)

decryptMessage(impl, encryptedMessage, key, failure) ==
    IF impl = "web" THEN WebDecryptMessage(encryptedMessage, key, failure)
    ELSE MobileDecryptMessage(encryptedMessage, key)

\* One code unit of a stored ciphertext replaced by another.
Tamperings(s) ==
    {[s EXCEPT ![i] = ch] : i \in DOMAIN s, ch \in {65, 66}} \ {s}

CodecInit ==
    /\ profiles = << >>
    /\ chats = << >>
    /\ chat_participants = {}
    /\ messages = << >>
    /\ clock = 0
    /\ commitLog = << >>
    /\ open = << >>
    /\ uiMessages = << >>
    /\ inflight = << >>
    /\ events = << >>
    /\ call = << >>
    /\ ret = << >>
    /\ AuxIdle
    /\ \E impl \in {"web", "mobile"}, body \in CodecBodies, key \in CodecKeys :
            codec = [step |-> "new", impl |-> impl, body |-> body, key |-> key,
                     sealed |-> << >>, how |-> "none", opened |-> << >>]

CodecSeal ==
    /\ codec.step = "new"
    /\ codec' = [codec EXCEPT !.step = "sealed",
                              !.sealed = encryptMessage(codec.impl, codec.body, codec.key)]
    /\ UNCHANGED <<vars, auxVars>>

CodecOpen ==
    /\ codec.step = "sealed"
    /\ \E failure \in AesFailures :
        codec' = [codec EXCEPT
                     !.step = "opened", !.how = "sameKey",
                     !.opened = decryptMessage(codec.impl, codec.sealed, codec.key, failure)]
    /\ UNCHANGED <<vars, auxVars>>

CodecOpenOtherKey ==
    /\ codec.step = "sealed"
    /\ \E failure \in AesFailures, other \in CodecKeys \ {codec.key} :
        codec' = [codec EXCEPT
                     !.step = "opened", !.how = "otherKey",
                     !.opened = decryptMessage(codec.impl, codec.sealed, other, failure)]
    /\ UNCHANGED <<vars, auxVars>>

CodecOpenTampered ==
    /\ codec.step = "sealed"
    /\ \E failure \in AesFailures, tampered \in Tamperings(codec.sealed) :
        codec' = [codec EXCEPT
                     !.step = "opened", !.how = "tampered",
                     !.opened = decryptMessage(codec.impl, tampered, codec.key, failure)]
    /\ UNCHANGED <<vars, auxVars>>

\* The ciphertext one client surface stored is opened by the other surface's
\* decryptMessage, with the key of the chat.
CodecOpenOtherSurface ==
    /\ codec.step = "sealed"
    /\ \E failure \in AesFailures :
        codec' = [codec EXCEPT
                     !.step = "opened", !.how = "otherSurface",
                     !.opened = decryptMessage(IF codec.impl = "web" THEN "mobile" ELSE "web",
                                               codec.sealed, codec.key, failure)]
    /\ UNCHANGED <<vars, auxVars>>

CodecNext ==
    \/ CodecSeal
    \/ CodecOpen
    \/ CodecOpenOtherKey
    \/ CodecOpenTampered
    \/ CodecOpenOtherSurface

CodecSpec == CodecInit /\ [][CodecNext]_allvars

\* The typed failure the contract asks of open(); no codec of the repository returns it.
DecryptionFailed == << -4 >>

\* C6: decryptMessage with a key other than the sealing key, or on tampered
\* ciphertext, yields the failure DecryptionFailed, never the ciphertext or any
\* other string as the content.
C6_FailsClosed ==
    (codec.step = "opened" /\ codec.how \in {"otherKey", "tampered"})
        => codec.opened = DecryptionFailed

\* C7: for every body and key, in both codecs,
\* decryptMessage(encryptMessage(body, key), key) = body.
C7_RoundTrip ==
    (codec.step = "opened" /\ codec.how = "sameKey") => codec.opened = codec.body

\* C29: a body sealed by one client surface and opened by the other with the same
\* key comes back unchanged, in both directions: web to mobile and mobile to web.
C29_CrossSurfaceRoundTrip ==
    (codec.step = "opened" /\ codec.how = "otherSurface") => codec.opened = codec.body

====
